---- MODULE Spec2Model ----
(***************************************************************************)
(* cutvids: the command plan generator cutvid_commands, the cutting loop   *)
(* of main that drives it, and the file system both act on.                *)
(*                                                                         *)
(* A file name is a sequence of components (<<"talk", ".mp4">>), a path a  *)
(* directory followed by a file name and the suffixes the code appends.    *)
(* A command is its argument list, one record per argument.                *)
(*                                                                         *)
(* The task list is immutable and the loop of main reads tasks[i] only in  *)
(* iteration i and finds the list's end only after its last task, and      *)
(* cutvid_commands reads vt.segments[k] only in iteration k of its loop:   *)
(* the model draws each where it is first read.                            *)
(***************************************************************************)
EXTENDS Integers, Sequences, FiniteSets, TLC

\* ---------------------------------------------------------------- bounds
MaxTime == 2
MaxSegments == 3
MaxInputs == 2
MaxTasks == 2
WalkDirs == 2
MaxLines == 2
MaxLineLen == 3
MaxTokLen == 3
MaxSegmentsIn == 2

\* ------------------------------------------------------------ data model
\* Python's None for an unspecified segment bound or gain.
None == -1

TimeValues == {None} \cup (0 .. MaxTime)

\* Segment = namedtuple('Segment', ('start', 'end'))
Segment(start, end) == [start |-> start, end |-> end]

Segments == {Segment(a, b) : a \in TimeValues, b \in TimeValues}

NoSegment == Segment(None, None)

\* The output names a task file may carry, already normalised to an extension.
OutputFiles == {<<"talk", ".mp4">>, <<"demo", ".webm">>}

\* Input basenames: tokens[0].split('+')
InputNames == <<"a.mts", "b.mts", "c.mts", "d.mts">>

InputLists == {SubSeq(InputNames, 1, n) : n \in 1 .. MaxInputs}

BoostValues == {None, 0, 2}

\* VideoTask; segments is held as its length, each segment drawn when read.
VideoTask(inputs, out, nseg, boost) ==
    [input_files |-> inputs, output_file |-> out,
     nsegments |-> nseg, boost_volume |-> boost]

VideoTasks ==
    {VideoTask(inp, out, n, b) :
        inp \in InputLists, out \in OutputFiles,
        n \in 1 .. MaxSegments, b \in BoostValues}

NoTask == VideoTask(<<>>, <<>>, 0, None)

\* Python truthiness of a number or None: 'if start', 'if vt.boost_volume'.
Truthy(x) == x /= None /\ x /= 0

\* ------------------------------------------------------------------ paths
CwdDir == "cwd"
UploadingDir == "uploading"
InDir == "indir"

\* os.path.join(dir, file)
Join(dir, file) == <<dir>> \o file

\* os.path.splitext(vt.output_file)[1]
Ext(file) == file[Len(file)]

\* fn + '<suffix>%s' % ext
WithExt(fn, suffix, ext) == fn \o <<suffix, ext>>

\* fn + '<suffix>'
WithSuffix(fn, suffix) == Append(fn, suffix)

\* find_file(indir, f) when f is found once: os.path.join(path, basename)
FoundPath(basename) == <<InDir, basename>>

\* What os.walk(root_dir) meets: for each directory in turn, whether a file
\* of the basename is in it.
Walks == [1 .. WalkDirs -> BOOLEAN]

\* The loop of find_file from directory i on, with `found` set or not.
RECURSIVE FindFileFrom(_, _, _)
FindFileFrom(walk, i, found) ==
    IF i > Len(walk)
    THEN (IF found THEN "found" ELSE "ValueError")
    ELSE IF walk[i]
         THEN (IF found THEN "FileNotFoundError" ELSE FindFileFrom(walk, i + 1, TRUE))
         ELSE FindFileFrom(walk, i + 1, found)

\* find_file as it would be if it returned the first file it meets.
find_file_first_match(walk) ==
    IF \E i \in 1 .. Len(walk) : walk[i] THEN "found" ELSE "ValueError"

\* find_file(root_dir, basename): "found", or the exception it raises.
find_file(walk) == FindFileFrom(walk, 1, FALSE)

\* The files of the basename under root_dir.
Hits(walk) == Cardinality({i \in 1 .. Len(walk) : walk[i]})

\* PartFn as a plan would have it that assembles the output in place.
PartFnInPlace(output_fn, ext) == output_fn

PartFn(output_fn, ext) == WithExt(output_fn, ".part", ext)

FilterInputFn(output_fn, ext) == WithExt(output_fn, ".filter_input", ext)

WholeFn(output_fn, ext) == WithExt(output_fn, ".whole", ext)

FirstPartFn(output_fn, ext) == WithExt(output_fn, ".first_part", ext)

EndPartFn(output_fn, ext) == WithExt(output_fn, ".end_part", ext)

\* SegmentFn as it would be without the segment number in the name.
SegmentFnUnnumbered(output_fn, segment_num, ext) == output_fn \o <<".segment", ext>>

\* '%d' % n as text, for the small n a file name carries
Digits == <<"0", "1", "2", "3", "4", "5", "6", "7">>

\* output_fn + '.segment%d%s' % (segment_num, ext)
SegmentFn(output_fn, segment_num, ext) ==
    output_fn \o <<".segment", Digits[segment_num + 1], ext>>

ConcatListFn(out_fn) == WithSuffix(out_fn, ".concat_list.txt")

\* tempfile.mkstemp(prefix=vt.output_file, suffix='.concat_list.txt', dir=outdir)
MkstempFn(outdir, output_file) ==
    Join(outdir, output_file) \o <<"<random>", ".concat_list.txt">>

\* ------------------------------------------------------------- arguments
Lit(str) == [lit |-> str, num |-> 0, path |-> <<>>]

\* '%d' % n
Num(n) == [lit |-> "%d", num |-> n, path |-> <<>>]

File(p) == [lit |-> "", num |-> 0, path |-> p]

\* 'volume=%s' % boost_volume
Volume(b) == [lit |-> "volume=%s", num |-> b, path |-> <<>>]

NoCmd == <<>>

Range(seq) == {seq[i] : i \in 1 .. Len(seq)}

\* The arguments of a command that are paths.
CmdPaths(c) == {c[i].path : i \in {j \in 1 .. Len(c) : c[j].lit = ""}}

\* The last argument: where ffmpeg, cp and mv write.
CmdTarget(c) == c[Len(c)].path

\* The paths given to a command to read: after '-i', or the source of cp and mv.
CmdInputs(c) ==
    IF c[1].lit = "ffmpeg"
    THEN {c[i + 1].path : i \in {j \in 1 .. Len(c) - 1 : c[j].lit = "-i"}}
    ELSE {c[3].path}

IsConcat(c) == \E i \in 1 .. Len(c) - 1 : c[i].lit = "-f" /\ c[i + 1].lit = "concat"

\* The value following option opt, as a set (empty when the option is absent).
OptValues(c, opt) == {c[i + 1].num : i \in {j \in 1 .. Len(c) - 1 : c[j].lit = opt}}

\* ---------------------------------------------------------------- commands
\* _concat_cmd's return value
ConcatCmd(out_fn) ==
    <<Lit("ffmpeg"), Lit("-y"), Lit("-safe"), Lit("0"),
      Lit("-f"), Lit("concat"), Lit("-i"), File(ConcatListFn(out_fn)),
      Lit("-c"), Lit("copy"), File(out_fn)>>

\* ffmpeg_opts of one segment in the multi-segment loop
SegmentOpts(s) ==
    IF s.start /= None
    THEN <<Lit("-ss"), Num(s.start)>> \o
         (IF s.end /= None THEN <<Lit("-t"), Num(s.end - s.start)>> ELSE <<>>)
    ELSE IF s.end /= None THEN <<Lit("-t"), Num(s.end)>> ELSE <<>>

\* assert s.end > s.start, reached only when both bounds are not None
SegmentAssertOk(s) == (s.start /= None /\ s.end /= None) => s.end > s.start

\* The file a segment extraction command reads: input_files[0]
SegmentSource(in_files, whole) == in_files[1]

SegmentCmd(source, opts, segment_fn) ==
    <<Lit("ffmpeg"), Lit("-i"), File(source), Lit("-y")>> \o opts \o
    <<Lit("-c"), Lit("copy"), File(segment_fn)>>

MvCmd(from, to) == <<Lit("mv"), Lit("--"), File(from), File(to)>>

CpCmd(from, to) == <<Lit("cp"), Lit("--"), File(from), File(to)>>

\* The audio gain command; ffmpeg_opts is what the segment loop left behind.
FilterCmd(filter_input, opts, boost, part) ==
    <<Lit("ffmpeg"), Lit("-i"), File(filter_input), Lit("-y")>> \o opts \o
    <<Lit("-c:v"), Lit("copy"), Lit("-af"), Volume(boost), File(part)>>

\* FastCmd as it would be with the segment's end passed as the duration.
FastCmdAbsoluteEnd(source, start, end, part) ==
    <<Lit("ffmpeg"), Lit("-noaccurate_seek"), Lit("-i"), File(source), Lit("-y"),
      Lit("-ss"), Num(start), Lit("-c"), Lit("copy"), Lit("-t"), Num(end),
      Lit("-avoid_negative_ts"), Lit("make_zero"), File(part)>>

\* The single-segment fast path's command
FastCmd(source, start, end, part) ==
    <<Lit("ffmpeg"), Lit("-noaccurate_seek"), Lit("-i"), File(source), Lit("-y"),
      Lit("-ss"), Num(start), Lit("-c"), Lit("copy"), Lit("-t"), Num(end - start),
      Lit("-avoid_negative_ts"), Lit("make_zero"), File(part)>>

HeadTrimCmd(source, start, tmpfile) ==
    <<Lit("ffmpeg"), Lit("-i"), File(source), Lit("-y"),
      Lit("-ss"), Num(start), Lit("-c"), Lit("copy"), File(tmpfile)>>

TailTrimCmd(source, end, tmpfile) ==
    <<Lit("ffmpeg"), Lit("-i"), File(source), Lit("-y"),
      Lit("-t"), Num(end), Lit("-c"), Lit("copy"), File(tmpfile)>>

\* The general path's concat command, on the mkstemp list
GeneralConcatCmd(tmpfile, part) ==
    <<Lit("ffmpeg"), Lit("-y"), Lit("-safe"), Lit("0"),
      Lit("-f"), Lit("concat"), Lit("-i"), File(tmpfile),
      Lit("-c"), Lit("copy"), File(part)>>

\* ------------------------------------------------------------ file system
\* A disk is the set of paths that exist below the working directory and the
\* content of each concat list: <<list path, the paths it names in order>>.
\* Files find_file found under indir exist throughout.
Exists(p, files) == p \in files \/ p[1] = InDir

\* io.open(fn, 'w') ... write: creates or replaces the list
WriteList(ls, fn, names) == {l \in ls : l[1] /= fn} \cup {<<fn, names>>}

ListNames(ls, fn) == UNION {Range(l[2]) : l \in {x \in ls : x[1] = fn}}

\* Every file a command reads: its inputs and, through a concat list, the
\* files the list names.
CmdReads(c, ls) ==
    CmdInputs(c) \cup
    (IF IsConcat(c) THEN UNION {ListNames(ls, p) : p \in CmdInputs(c)} ELSE {})

\* The external program can exit 0 only when what it reads is there.
CanSucceed(c, files, ls) == \A p \in CmdReads(c, ls) : Exists(p, files)

\* The disk after the command exited 0.
RunOk(c, files) ==
    IF c[1].lit = "mv"
    THEN (files \ CmdInputs(c)) \cup {CmdTarget(c)}
    ELSE files \cup {CmdTarget(c)}

\* The disks a command that exited non-zero may leave: mv changes nothing,
\* ffmpeg and cp may leave a partially written target.
RunFailed(c, files) ==
    IF c[1].lit = "mv" THEN {files} ELSE {files, files \cup {CmdTarget(c)}}

\* RemoveAll as a finally block would do that lets ENOENT escape: the loop
\* stops at the first path that is already gone.
RECURSIVE RemoveAllStrict(_, _)
RemoveAllStrict(tmp, files) ==
    IF tmp = <<>> THEN files
    ELSE IF Head(tmp) \in files
         THEN RemoveAllStrict(Tail(tmp), files \ {Head(tmp)})
         ELSE files

\* The finally block: os.remove(fn) for fn in tmpfiles. ENOENT is swallowed,
\* so the loop goes on; any other error is not modelled.
RECURSIVE RemoveAll(_, _)
RemoveAll(tmp, files) ==
    IF tmp = <<>> THEN files
    ELSE IF Head(tmp) \in files
         THEN RemoveAll(Tail(tmp), files \ {Head(tmp)})
         ELSE RemoveAll(Tail(tmp), files)

\* is_uploaded(cwd, vt)
is_uploaded(files, task) == Join(CwdDir, task.output_file) \in files

\* is_cut as it would be when handed the wrong directory.
is_cut_in_cwd(files, task) == Join(CwdDir, task.output_file) \in files

\* is_cut(uploading_dir, vt)
is_cut(files, task) == Join(UploadingDir, task.output_file) \in files

\* ------------------------------------------------ the text of a task file
\* Text is a sequence of characters. A character is a one-letter string or
\* a lexeme that stands for a run of ordinary characters (no space, quote,
\* '#', '+', ':' or '-'): the names of files, an extension, a JSON object.
\* A line is held without its line end, which the first strip() of every
\* use of the line removes.
SP == " "
HASH == "#"
DQ == "\""
SQ == "'"

\* The JSON object of a task line, written compactly: it holds '"' and no
\* space or single quote. Its content is drawn when json.loads reads it.
JsonText == "{json}"

DigitChars == {"0", "1", "2", "3", "4", "5", "6", "7", "8", "9"}

\* int(c) of one digit
DigitValue(c) ==
    CASE c = "0" -> 0 [] c = "1" -> 1 [] c = "2" -> 2 [] c = "3" -> 3
      [] c = "4" -> 4 [] c = "5" -> 5 [] c = "6" -> 6 [] c = "7" -> 7
      [] c = "8" -> 8 [] c = "9" -> 9

\* int(s) of a string of digits
RECURSIVE IntOf(_)
IntOf(s) ==
    IF s = <<>> THEN 0
    ELSE 10 * IntOf(SubSeq(s, 1, Len(s) - 1)) + DigitValue(s[Len(s)])

\* s matches [0-9]+
IsDigits(s) == s /= <<>> /\ \A i \in 1 .. Len(s) : s[i] \in DigitChars

\* s.strip(), one end at a time
RECURSIVE LStrip(_)
LStrip(s) == IF s /= <<>> /\ s[1] = SP THEN LStrip(Tail(s)) ELSE s

RECURSIVE RStrip(_)
RStrip(s) ==
    IF s /= <<>> /\ s[Len(s)] = SP THEN RStrip(SubSeq(s, 1, Len(s) - 1)) ELSE s

Strip(s) == RStrip(LStrip(s))

\* s.startswith(c)
StartsWith(s, c) == s /= <<>> /\ s[1] = c

\* The places of sep in s
Places(s, sep) == {i \in 1 .. Len(s) : s[i] = sep}

Min(S) == CHOOSE x \in S : \A y \in S : x <= y

\* s.partition(sep): what is before the first sep and what is after it
\* (all of s and '' when there is none)
PartitionHead(s, sep) ==
    IF Places(s, sep) = {} THEN s ELSE SubSeq(s, 1, Min(Places(s, sep)) - 1)

PartitionTail(s, sep) ==
    IF Places(s, sep) = {} THEN <<>> ELSE SubSeq(s, Min(Places(s, sep)) + 1, Len(s))

\* s.split(sep)
RECURSIVE Split(_, _)
Split(s, sep) ==
    IF Places(s, sep) = {} THEN <<s>>
    ELSE <<PartitionHead(s, sep)>> \o Split(PartitionTail(s, sep), sep)

\* A Python value that a time may be given as: None, an int or a string.
PyNone == [kind |-> "None", n |-> 0, s |-> <<>>]

PyInt(n) == [kind |-> "int", n |-> n, s |-> <<>>]

PyStr(s) == [kind |-> "str", n |-> 0, s |-> s]

\* What a call leaves: a value, or the exception it raised.
Returned(v) == [err |-> "", val |-> v]

Raised(e) == [err |-> e, val |-> None]

\* The match of line 36: re.match anchors the pattern at the start and '$'
\* at the end, so the string is one to three ':'-separated fields of digits;
\* re.match raises TypeError when token is no string.
SecondsFields(s) == Split(s, ":")

SecondsMatch(s) ==
    /\ Len(SecondsFields(s)) \in 1 .. 3
    /\ \A i \in 1 .. Len(SecondsFields(s)) : IsDigits(SecondsFields(s)[i])

\* Lines 39-44, on the fields of a match: secs, then minutes and hours when
\* their groups are there (a group that matched is never empty).
SecondsOf(f) ==
    IntOf(f[Len(f)])
    + (IF Len(f) >= 2 THEN 60 * IntOf(f[Len(f) - 1]) ELSE 0)
    + (IF Len(f) >= 3 THEN 60 * 60 * IntOf(f[Len(f) - 2]) ELSE 0)

\* parse_seconds(token)
parse_seconds(token) ==
    IF token = PyStr(<<"-">>) THEN Returned(None)
    ELSE IF token.kind /= "str" THEN Raised("TypeError")
    ELSE IF ~SecondsMatch(token.s) THEN Raised("AttributeError")
    ELSE Returned(SecondsOf(SecondsFields(token.s)))

\* ------------------------------------------------- the parser's values
\* extra_data as the parser reads it: the length of 'segments' (None when
\* the key is absent; its elements are drawn as the comprehension reads
\* them) and 'boost_volume'.
Extras(nsegments_in, boost) == [nsegments |-> nsegments_in, boost_volume |-> boost]

NoExtras == Extras(None, None)

\* An element of segments_in: a {start, end} object or a [start, end] pair.
SegmentIn(form, a, b) == [form |-> form, start |-> a, end |-> b]

NoSegmentIn == SegmentIn("", PyNone, PyNone)

\* The VideoTask parse_video_tasks yields, with its list of segments.
YieldedTask(inputs, out, segs, boost) ==
    [input_files |-> inputs, output_file |-> out, segments |-> segs,
     boost_volume |-> boost]

NoYieldedTask == YieldedTask(<<>>, <<>>, <<>>, None)

\* ------------------------------------------------------------------ state
VARIABLES
    dry_run,        \* args.dry_run
    run,            \* 1 in the program's first run, 2 when it is run again
    outnames,       \* the output_file of each task read so far, by position
    ti,             \* the position of the cutting loop in tasks, from 1
    vt,             \* the loop's task
    pc,             \* main: "loop", "skipped", "next" (inside next(gen)),
                    \* "exec" (holds a command), "finished" (the plan is
                    \* consumed), "raised" (an exception left main), "exit"
    fs,             \* the paths that exist below cwd
    lists,          \* the content of the concat lists on disk
    gpc,            \* the generator: where it is suspended or running
    input_files,    \* cutvid_commands' locals
    inf,
    tmpfiles,
    segment_files,
    segment_num,
    seg,            \* the segment being read: s, or vt.segments[0]
    ffmpeg_opts,
    hits,           \* for each input looked up, the files of its basename
                    \* that are under indir
    cmd,            \* the command the generator yielded last
    nyield,         \* commands the task's generator yielded
    ndest,          \* of these, the commands that name the destination
    nexec,          \* commands of the task that were launched
    failed,         \* a command of the task exited non-zero
    removed,        \* the paths the task's finally block has removed
    runexec,        \* commands launched in this run
    \* parse_video_tasks, the generator that list() in main consumes
    ppc,            \* where it is: "idle" (not called), "for" (line 66),
                    \* "tokens" (in list(parse_tokens(line))), "l70", "l78",
                    \* "l87", "l90" (in the comprehension), "y95" (suspended
                    \* in the yield), "eof" (returned)
    perr,           \* the exception that left it, "" when none did
    nlines,         \* the lines of the task file
    lineno,         \* the lines read so far
    line,           \* the line read last
    tline,          \* parse_tokens' line: what is left to tokenize
    tokens,         \* the tokens parse_tokens has yielded for the line
    startend,       \* Segment(start, end) of lines 75-76
    extra_data,     \* the extras of lines 78-81
    segment_in,     \* the element of segments_in read last
    segments,       \* the Segments made so far
    task,           \* the VideoTask yielded last
    ntasks,         \* the VideoTasks yielded so far
    nskipped,       \* the blank and '#' lines met so far
    marked          \* ntasks when the first blank or '#' line was met

gvars == <<gpc, input_files, inf, tmpfiles, segment_files, segment_num, seg, ffmpeg_opts,
          hits>>

hvars == <<nyield, ndest, nexec, failed, removed, runexec>>

\* The state of the cutting loop and of the plan generator
cvars == <<dry_run, run, outnames, ti, vt, pc, fs, lists, cmd, gvars, hvars>>

\* The state of the task file parser
pvars == <<ppc, perr, nlines, lineno, line, tline, tokens, startend, extra_data,
           segment_in, segments, task, ntasks, nskipped, marked>>

vars == <<cvars, pvars>>

\* What may be left in the two directories by earlier runs of the program.
LeftBehind == {Join(CwdDir, <<"talk", ".mp4">>), Join(UploadingDir, <<"talk", ".mp4">>)}

\* parse_video_tasks is not called, or its work is over.
ParserIdle ==
    /\ ppc = "idle" /\ perr = ""
    /\ nlines = 0 /\ lineno = 0
    /\ line = <<>> /\ tline = <<>> /\ tokens = <<>>
    /\ startend = NoSegment /\ extra_data = NoExtras
    /\ segment_in = NoSegmentIn /\ segments = <<>>
    /\ task = NoYieldedTask
    /\ ntasks = 0 /\ nskipped = 0 /\ marked = None

Init ==
    /\ dry_run \in BOOLEAN
    /\ run = 1
    /\ outnames = <<>>
    /\ ti = 1
    /\ vt = NoTask
    /\ pc = "loop"
    /\ fs \in SUBSET LeftBehind
    /\ lists = {}
    /\ gpc = "none"
    /\ input_files = <<>>
    /\ inf = <<>>
    /\ tmpfiles = <<>>
    /\ segment_files = <<>>
    /\ segment_num = 0
    /\ seg = NoSegment
    /\ ffmpeg_opts = <<>>
    /\ hits = <<>>
    /\ cmd = NoCmd
    /\ nyield = 0
    /\ ndest = 0
    /\ nexec = 0
    /\ failed = FALSE
    /\ removed = {}
    /\ runexec = 0
    /\ ParserIdle

\* ------------------------------------------------- cutvid_commands' frame
output_fn == Join(UploadingDir, vt.output_file)

ext == Ext(vt.output_file)

part == PartFn(output_fn, ext)

\* InTry as it would be with the try block closed before line 210: the
\* finally block runs before the assembling command is yielded.
InTryEndsEarly(pos) ==
    pos \in {"l124", "l132", "l175",
             "y128", "y147", "y153", "y155", "y160", "y166",
             "y176", "y185", "y193", "y203"}

\* The positions of the generator that lie inside the try block: the yields
\* of lines 128 to 223 and the statements between them.
InTry(pos) ==
    pos \in {"l124", "l132", "l175",
             "y128", "y147", "y153", "y155", "y160", "y166",
             "y176", "y185", "y193", "y203", "y211", "y223"}

\* The finally block runs when control leaves the try block.
LeavesTry(from, to) == InTry(from) /\ ~InTry(to)

\* The generator moves to position `to` with temp registry `tmp` on disk
\* `files`/`ls`: the finally block runs first when that leaves the try block.
Goto(to, tmp, files, ls) ==
    /\ gpc' = to
    /\ UNCHANGED pvars
    /\ tmpfiles' = tmp
    /\ IF LeavesTry(gpc, to)
       THEN /\ fs' = RemoveAll(tmp, files)
            /\ lists' = {l \in ls : l[1] \notin Range(tmp)}
            /\ removed' = removed \cup (Range(tmp) \cap files)
       ELSE /\ fs' = files
            /\ lists' = ls
            /\ removed' = removed

\* yield c, suspended at position `to`
Yield(c, to, tmp, files, ls) ==
    /\ Goto(to, tmp, files, ls)
    /\ cmd' = c
    /\ pc' = "exec"
    /\ nyield' = nyield + 1
    /\ ndest' = ndest + (IF output_fn \in CmdPaths(c) THEN 1 ELSE 0)
    /\ UNCHANGED <<dry_run, run, outnames, ti, vt, nexec, failed, runexec, hits>>

\* The generator goes on to statement `to` without yielding.
Continue(to, tmp, files, ls) ==
    /\ Goto(to, tmp, files, ls)
    /\ UNCHANGED <<dry_run, run, outnames, ti, vt, pc, cmd,
                   nyield, ndest, nexec, failed, runexec, hits>>

\* The generator raises: the exception passes through the for loop of main,
\* which catches nothing.
Raise(tmp, files, ls) ==
    /\ Goto("error", tmp, files, ls)
    /\ pc' = "raised"
    /\ UNCHANGED <<dry_run, run, outnames, ti, vt, cmd,
                   nyield, ndest, nexec, failed, runexec, hits>>

\* The generator returns: StopIteration ends the for loop over the commands.
Return(tmp, files, ls) ==
    /\ Goto("done", tmp, files, ls)
    /\ pc' = "finished"
    /\ UNCHANGED <<dry_run, run, outnames, ti, vt, cmd,
                   nyield, ndest, nexec, failed, runexec, hits>>

\* ------------------------------------------- cutvid_commands, block by block
\* Lines 101-105: every input is found once; the body enters the try block.
GenStart ==
    /\ pc = "next" /\ gpc = "start"
    /\ \E walks \in [1 .. Len(vt.input_files) -> Walks] :
        /\ \A i \in 1 .. Len(vt.input_files) : find_file(walks[i]) = "found"
        /\ hits' = [i \in 1 .. Len(vt.input_files) |-> Hits(walks[i])]
    /\ input_files' = [i \in 1 .. Len(vt.input_files) |-> FoundPath(vt.input_files[i])]
    /\ Goto("l124", <<>>, fs, lists)
    /\ UNCHANGED <<dry_run, run, outnames, ti, vt, pc, cmd,
                   nyield, ndest, nexec, failed, runexec>>
    /\ UNCHANGED <<inf, segment_files, segment_num, seg, ffmpeg_opts>>

\* Line 101: the inputs before the i-th are found and find_file raises for
\* the i-th (no file, or two files, of that basename): the list is not
\* built and the exception leaves the generator, and main, before the try
\* block is entered.
FindFileFails ==
    /\ pc = "next" /\ gpc = "start"
    /\ \E i \in 1 .. Len(vt.input_files), walk \in Walks :
        /\ find_file(walk) /= "found"
        /\ hits' = [j \in 1 .. i |-> IF j < i THEN 1 ELSE Hits(walk)]
    /\ Goto("error", tmpfiles, fs, lists)
    /\ pc' = "raised"
    /\ UNCHANGED <<dry_run, run, outnames, ti, vt, cmd,
                   nyield, ndest, nexec, failed, runexec>>
    /\ UNCHANGED <<input_files, inf, segment_files, segment_num, seg, ffmpeg_opts>>

\* Lines 124-128: several segments of several inputs: concatenate the inputs.
MultiWhole ==
    /\ pc = "next" /\ gpc = "l124"
    /\ vt.nsegments > 1 /\ Len(input_files) > 1
    /\ LET whole == WholeFn(output_fn, ext)
           concat_fn == ConcatListFn(whole)
       IN /\ inf' = whole
          /\ Yield(ConcatCmd(whole), "y128",
                   tmpfiles \o <<whole, concat_fn>>,
                   fs \cup {concat_fn},
                   WriteList(lists, concat_fn, input_files))
    /\ UNCHANGED <<input_files, segment_files, segment_num, seg, ffmpeg_opts>>

\* Lines 124-130: several segments of one input.
MultiSingle ==
    /\ pc = "next" /\ gpc = "l124"
    /\ vt.nsegments > 1 /\ Len(input_files) = 1
    /\ inf' = input_files[1]
    /\ Continue("l132", tmpfiles, fs, lists)
    /\ UNCHANGED <<input_files, segment_files, segment_num, seg, ffmpeg_opts>>

\* The index enumerate() hands out next in the loop of line 133.
AtSegmentLoop == gpc \in {"y128", "l132", "y147"}

NextSegmentNum == IF gpc = "y147" THEN segment_num + 1 ELSE 0

\* Lines 133-151: one iteration of the segment loop.
SegmentExtract ==
    /\ pc = "next" /\ AtSegmentLoop
    /\ NextSegmentNum < vt.nsegments
    /\ \E s \in Segments :
        LET segment_fn == SegmentFn(output_fn, NextSegmentNum, ext)
            opts == SegmentOpts(s)
        IN /\ SegmentAssertOk(s)
           /\ seg' = s
           /\ segment_num' = NextSegmentNum
           /\ segment_files' = Append(segment_files, segment_fn)
           /\ ffmpeg_opts' = opts
           /\ Yield(SegmentCmd(SegmentSource(input_files, inf), opts, segment_fn),
                    "y147", tmpfiles \o <<segment_fn, segment_fn>>, fs, lists)
    /\ UNCHANGED <<input_files, inf>>

\* Lines 133-141: the assert of line 141 fails.
SegmentReject ==
    /\ pc = "next" /\ AtSegmentLoop
    /\ NextSegmentNum < vt.nsegments
    /\ \E s \in Segments :
        LET segment_fn == SegmentFn(output_fn, NextSegmentNum, ext)
        IN /\ ~SegmentAssertOk(s)
           /\ seg' = s
           /\ segment_num' = NextSegmentNum
           /\ segment_files' = Append(segment_files, segment_fn)
           /\ ffmpeg_opts' = <<Lit("-ss"), Num(s.start)>>
           /\ Raise(Append(tmpfiles, segment_fn), fs, lists)
    /\ UNCHANGED <<input_files, inf>>

\* Line 153: the loop is over; merge the segment files into the part file.
MergeSegments ==
    /\ pc = "next" /\ AtSegmentLoop
    /\ NextSegmentNum >= vt.nsegments
    /\ LET concat_fn == ConcatListFn(part)
       IN Yield(ConcatCmd(part), "y153",
                Append(tmpfiles, concat_fn),
                fs \cup {concat_fn},
                WriteList(lists, concat_fn, segment_files))
    /\ UNCHANGED <<input_files, inf, segment_files, segment_num, seg, ffmpeg_opts>>

\* Lines 154-158: with a gain, the part file becomes the filter's input.
FilterRename ==
    /\ pc = "next" /\ gpc = "y153"
    /\ Truthy(vt.boost_volume)
    /\ Yield(MvCmd(part, FilterInputFn(output_fn, ext)), "y155", tmpfiles, fs, lists)
    /\ UNCHANGED <<input_files, inf, segment_files, segment_num, seg, ffmpeg_opts>>

\* Lines 159-165: the filter command.
Filter ==
    /\ pc = "next" /\ gpc = "y155"
    /\ LET filter_input == FilterInputFn(output_fn, ext)
       IN Yield(FilterCmd(filter_input, ffmpeg_opts, vt.boost_volume, part),
                "y160", Append(tmpfiles, filter_input), fs, lists)
    /\ UNCHANGED <<input_files, inf, segment_files, segment_num, seg, ffmpeg_opts>>

\* Lines 166-168: the rename that ends the multi-segment plan.
MultiRename ==
    /\ pc = "next"
    /\ \/ gpc = "y153" /\ ~Truthy(vt.boost_volume)
       \/ gpc = "y160"
    /\ Yield(MvCmd(part, output_fn), "y166", tmpfiles, fs, lists)
    /\ UNCHANGED <<input_files, inf, segment_files, segment_num, seg, ffmpeg_opts>>

\* Lines 169 and 188: return inside the try block.
ReturnInTry ==
    /\ pc = "next" /\ gpc \in {"y166", "y185"}
    /\ Return(tmpfiles, fs, lists)
    /\ UNCHANGED <<input_files, inf, segment_files, segment_num, seg, ffmpeg_opts>>

\* Lines 172-174: one segment; the assert on boost_volume passes.
SingleStart ==
    /\ pc = "next" /\ gpc = "l124"
    /\ vt.nsegments = 1
    /\ ~Truthy(vt.boost_volume)
    /\ seg' \in Segments
    /\ Continue("l175", tmpfiles, fs, lists)
    /\ UNCHANGED <<input_files, inf, segment_files, segment_num, ffmpeg_opts>>

\* Line 172: the assert on boost_volume fails.
SingleReject ==
    /\ pc = "next" /\ gpc = "l124"
    /\ vt.nsegments = 1
    /\ Truthy(vt.boost_volume)
    /\ Raise(tmpfiles, fs, lists)
    /\ UNCHANGED <<input_files, inf, segment_files, segment_num, seg, ffmpeg_opts>>

\* The condition of line 175.
IsFastPath(in_files, s) == Len(in_files) = 1 /\ Truthy(s.start) /\ Truthy(s.end)

\* Lines 175-184: the fast path's only ffmpeg command.
FastPath ==
    /\ pc = "next" /\ gpc = "l175"
    /\ IsFastPath(input_files, seg)
    /\ Yield(FastCmd(input_files[1], seg.start, seg.end, part), "y176",
             tmpfiles, fs, lists)
    /\ UNCHANGED <<input_files, inf, segment_files, segment_num, seg, ffmpeg_opts>>

\* Lines 185-187: the fast path's rename.
FastRename ==
    /\ pc = "next" /\ gpc = "y176"
    /\ Yield(MvCmd(part, output_fn), "y185", tmpfiles, fs, lists)
    /\ UNCHANGED <<input_files, inf, segment_files, segment_num, seg, ffmpeg_opts>>

\* Lines 190-198: trim the head of the first input.
HeadTrim ==
    /\ pc = "next" /\ gpc = "l175"
    /\ ~IsFastPath(input_files, seg)
    /\ Truthy(seg.start)
    /\ LET tmpfile == FirstPartFn(output_fn, ext)
       IN Yield(HeadTrimCmd(input_files[1], seg.start, tmpfile), "y193",
                Append(tmpfiles, tmpfile), fs, lists)
    /\ UNCHANGED <<input_files, inf, segment_files, segment_num, seg, ffmpeg_opts>>

\* Control is at line 200: after line 199, or from line 190 with no start.
AtLine200 ==
    \/ gpc = "y193"
    \/ gpc = "l175" /\ ~IsFastPath(input_files, seg) /\ ~Truthy(seg.start)

\* input_files at line 200: line 199 has replaced the first input.
InputsAt200 ==
    IF gpc = "y193"
    THEN [input_files EXCEPT ![1] = FirstPartFn(output_fn, ext)]
    ELSE input_files

\* Lines 200-208: trim the tail of the last input.
TailTrim ==
    /\ pc = "next" /\ AtLine200
    /\ Truthy(seg.end)
    /\ input_files' = InputsAt200
    /\ LET tmpfile == EndPartFn(output_fn, ext)
       IN Yield(TailTrimCmd(InputsAt200[Len(InputsAt200)], seg.end, tmpfile), "y203",
                Append(tmpfiles, tmpfile), fs, lists)
    /\ UNCHANGED <<inf, segment_files, segment_num, seg, ffmpeg_opts>>

\* Control is at line 210: after line 209, or from line 200 with no end.
AtLine210 == gpc = "y203" \/ (AtLine200 /\ ~Truthy(seg.end))

\* InputsAt210 as it would be without the substitution of line 209.
InputsAt210Untrimmed == IF gpc = "y203" THEN input_files ELSE InputsAt200

\* input_files at line 210: line 209 has replaced the last input.
InputsAt210 ==
    IF gpc = "y203"
    THEN [input_files EXCEPT ![Len(input_files)] = EndPartFn(output_fn, ext)]
    ELSE InputsAt200

\* Lines 210-213: one input is left: copy it to the part file.
AssembleCopy ==
    /\ pc = "next" /\ AtLine210
    /\ Len(InputsAt210) = 1
    /\ input_files' = InputsAt210
    /\ Yield(CpCmd(InputsAt210[1], part), "y211", tmpfiles, fs, lists)
    /\ UNCHANGED <<inf, segment_files, segment_num, seg, ffmpeg_opts>>

\* Lines 214-229: several inputs: concatenate them into the part file.
AssembleConcat ==
    /\ pc = "next" /\ AtLine210
    /\ Len(InputsAt210) /= 1
    /\ input_files' = InputsAt210
    /\ LET tmpfile == MkstempFn(UploadingDir, vt.output_file)
       IN Yield(GeneralConcatCmd(tmpfile, part), "y223",
                Append(tmpfiles, tmpfile),
                fs \cup {tmpfile},
                WriteList(lists, tmpfile, InputsAt210))
    /\ UNCHANGED <<inf, segment_files, segment_num, seg, ffmpeg_opts>>

\* Lines 230-240: the try block ends, the finally block runs, and the
\* general path's rename is yielded.
GeneralRename ==
    /\ pc = "next" /\ gpc \in {"y211", "y223"}
    /\ Yield(MvCmd(part, output_fn), "y238", tmpfiles, fs, lists)
    /\ UNCHANGED <<input_files, inf, segment_files, segment_num, seg, ffmpeg_opts>>

\* After line 240: the generator body ends.
GeneralEnd ==
    /\ pc = "next" /\ gpc = "y238"
    /\ Return(tmpfiles, fs, lists)
    /\ UNCHANGED <<input_files, inf, segment_files, segment_num, seg, ffmpeg_opts>>

\* The positions at which the generator is suspended in a yield.
Yields ==
    {"y128", "y147", "y153", "y155", "y160", "y166",
     "y176", "y185", "y193", "y203", "y211", "y223", "y238"}

\* ------------------------------------------------- main: the cutting loop
\* The tasks position i of the task list may hold: any task on the first
\* reading, and on a later run of the same task file a task with the
\* output_file read there before (the loop's skip test reads nothing else).
TasksAt(i) ==
    IF i <= Len(outnames)
    THEN {t \in VideoTasks : t.output_file = outnames[i]}
    ELSE VideoTasks

\* Whether the task list has a position i. The list is read to its end in
\* the first run, of any length up to MaxTasks; run again, it is the same list.
HasTask(i) == IF run = 1 THEN i <= MaxTasks ELSE i <= Len(outnames)

ListEnds(i) == IF run = 1 THEN TRUE ELSE i > Len(outnames)

Remember(i, t) == IF i <= Len(outnames) THEN outnames ELSE Append(outnames, t.output_file)

\* OnNonZeroExit of a main that reports the failure and takes the next
\* command of the plan.
OnNonZeroExitGoOn == "next"

\* OnNonZeroExit of a main that reports the failure, gives the task up and
\* goes on to the next task.
OnNonZeroExitNextTask == "finished"

\* What main does when a command exits non-zero (lines 366-371): it raises.
OnNonZeroExit == "raised"

\* Lines 351-355: the task is done already; continue.
SkipTask ==
    /\ pc = "loop" /\ HasTask(ti)
    /\ \E t \in TasksAt(ti) :
        /\ is_uploaded(fs, t) \/ is_cut(fs, t)
        /\ vt' = t
        /\ outnames' = Remember(ti, t)
    /\ pc' = "skipped"
    /\ UNCHANGED <<dry_run, run, ti, fs, lists, cmd, gvars, hvars>>
    /\ UNCHANGED pvars

\* The generator's frame and the per-task counts, as they are before a task
\* starts: nothing of a finished task is read again.
FrameReset ==
    /\ gpc' = "none"
    /\ input_files' = <<>> /\ inf' = <<>> /\ tmpfiles' = <<>>
    /\ segment_files' = <<>> /\ segment_num' = 0
    /\ seg' = NoSegment /\ ffmpeg_opts' = <<>> /\ hits' = <<>>
    /\ cmd' = NoCmd
    /\ nyield' = 0 /\ ndest' = 0 /\ nexec' = 0
    /\ failed' = FALSE /\ removed' = {}

\* Lines 355 and 372-373: the loop goes on to the next task, after a skip
\* or after the task's last command.
NextIteration ==
    /\ pc \in {"skipped", "finished"}
    /\ pc' = "loop"
    /\ ti' = ti + 1
    /\ vt' = NoTask
    /\ FrameReset
    /\ UNCHANGED <<dry_run, run, outnames, fs, lists, runexec>>
    /\ UNCHANGED pvars

\* Lines 351-358: the task is to be cut; cutvid_commands(...) makes the
\* generator, whose body starts with the first next().
StartTask ==
    /\ pc = "loop" /\ HasTask(ti)
    /\ \E t \in TasksAt(ti) :
        /\ ~(is_uploaded(fs, t) \/ is_cut(fs, t))
        /\ vt' = t
        /\ outnames' = Remember(ti, t)
    /\ pc' = "next"
    /\ gpc' = "start"
    /\ UNCHANGED <<dry_run, run, ti, fs, lists, cmd, hvars,
                   input_files, inf, tmpfiles, segment_files, segment_num,
                   seg, ffmpeg_opts, hits>>
    /\ UNCHANGED pvars

\* Lines 362: --dry-run: the command is printed at most, not launched.
DryRun ==
    /\ pc = "exec" /\ dry_run
    /\ pc' = "next"
    /\ UNCHANGED <<dry_run, run, outnames, ti, vt, fs, lists, cmd, gvars, hvars>>
    /\ UNCHANGED pvars

\* Lines 363-366: the command is launched and exits 0.
ExecOk ==
    /\ pc = "exec" /\ ~dry_run
    /\ CanSucceed(cmd, fs, lists)
    /\ fs' = RunOk(cmd, fs)
    /\ nexec' = nexec + 1
    /\ runexec' = runexec + 1
    /\ pc' = "next"
    /\ UNCHANGED <<dry_run, run, outnames, ti, vt, lists, cmd, gvars,
                   nyield, ndest, failed, removed>>
    /\ UNCHANGED pvars

\* Lines 363-371: the command is launched and exits non-zero, and main
\* raises OSError. Nothing catches it: main is left, and the generator it
\* abandons in a yield is finalised, which raises GeneratorExit at that yield
\* and runs the finally block when the yield is inside the try block.
\* (Only a main that is left abandons its generator.)
ExecFail ==
    /\ pc = "exec" /\ ~dry_run
    /\ \E files \in RunFailed(cmd, fs) :
        IF OnNonZeroExit = "raised"
        THEN Goto("closed", tmpfiles, files, lists)
        ELSE fs' = files /\ UNCHANGED <<gpc, tmpfiles, lists, removed, pvars>>
    /\ nexec' = nexec + 1
    /\ runexec' = runexec + 1
    /\ failed' = TRUE
    /\ pc' = OnNonZeroExit
    /\ UNCHANGED <<dry_run, run, outnames, ti, vt, cmd, nyield, ndest,
                   input_files, inf, segment_files, segment_num, seg, ffmpeg_opts,
                   hits>>

\* Lines 351 and 375: the loop is over and the cutting phase ends.
LoopEnd ==
    /\ pc = "loop" /\ ListEnds(ti)
    /\ pc' = "exit"
    /\ UNCHANGED <<dry_run, run, outnames, ti, vt, fs, lists, cmd, gvars, hvars>>
    /\ UNCHANGED pvars

\* The cutting phase ended without an error, and the program is run again
\* with the same arguments and task file, on the disk the first run left.
\* (A dry run leaves the disk as it found it: the run after it is a first
\* run again.)
Rerun ==
    /\ pc = "exit" /\ ~dry_run
    /\ run = 1
    /\ run' = 2
    /\ ti' = 1
    /\ pc' = "loop"
    /\ runexec' = 0
    /\ UNCHANGED <<dry_run, outnames, vt, fs, lists, cmd, gvars,
                   nyield, ndest, nexec, failed, removed>>
    /\ UNCHANGED pvars

Generator ==
    \/ GenStart \/ FindFileFails
    \/ MultiWhole \/ MultiSingle \/ SegmentExtract \/ SegmentReject
    \/ MergeSegments \/ FilterRename \/ Filter \/ MultiRename \/ ReturnInTry
    \/ SingleStart \/ SingleReject \/ FastPath \/ FastRename
    \/ HeadTrim \/ TailTrim \/ AssembleCopy \/ AssembleConcat
    \/ GeneralRename \/ GeneralEnd

Next ==
    \/ SkipTask \/ StartTask \/ NextIteration
    \/ DryRun \/ ExecOk \/ ExecFail \/ LoopEnd \/ Rerun
    \/ Generator

Spec == Init /\ [][Next]_vars

\* ============================================ parse_video_tasks(fn)
\* ---------------------------------------------------- the task files read
\* Every line of up to MaxLineLen characters over these:
LineChars == {SP, HASH, DQ, SQ, "a.mts"}

ShortLines == UNION {[1 .. n -> LineChars] : n \in 1 .. MaxLineLen}

\* ' '.join(texts)
RECURSIVE JoinTexts(_)
JoinTexts(texts) ==
    IF Len(texts) = 0 THEN <<>>
    ELSE IF Len(texts) = 1 THEN texts[1]
    ELSE texts[1] \o <<SP>> \o JoinTexts(Tail(texts))

\* A text as a task file quotes it.
Quoted(t) == <<SQ>> \o t \o <<SQ>>

\* The times a task line may carry: every text of up to MaxTokLen
\* characters over digits, ':' and '-', and the examples of the tests.
TimeChars == {"0", "1", ":", "-"}

TimeExamples ==
    {<<"1", "2", "3">>,
     <<"1", ":", "1", ":", "4", "0">>,
     <<"1", ":", "0", "1", ":", "4", "0">>,
     <<"1", ":", "2", ":", "3", ":", "4">>}

TimeTexts == UNION {[1 .. n -> TimeChars] : n \in 1 .. MaxTokLen} \cup TimeExamples

SmallTimes == {<<"-">>, <<"0">>, <<"1">>}

\* SOURCES and DEST of a task line
NamePairs ==
    {<< <<"a.mts">>, <<"talk">> >>,
     << <<"a.mts", "+", "b.mts">>, <<"talk", ".webm">> >>}

\* Task lines as they are written: SOURCES DEST [START [END [EXTRAS]]], the
\* extras quoted or not, with a sixth text, or with a trailing comment.
WrittenTasks ==
    NamePairs
    \cup {np \o <<t>> : np \in NamePairs, t \in TimeTexts}
    \cup {np \o <<t1, t2>> : np \in NamePairs, t1 \in SmallTimes, t2 \in TimeTexts}
    \cup {<< <<"a.mts">>, <<"talk">>, t1, t2, Quoted(<<JsonText>>) >> :
            t1 \in SmallTimes, t2 \in SmallTimes}
    \cup {<< <<"a.mts">>, <<"talk">>, <<"-">>, <<"-">>, <<JsonText>> >>,
          << <<"a.mts">>, <<"talk">>, <<"-">>, <<"-">>, <<"1">> >>,
          << <<"a.mts">>, <<"talk">>, <<"-">>, <<"-">>, Quoted(<<JsonText>>), <<"note">> >>,
          << <<"a.mts">>, <<"talk">>, <<HASH>>, <<"note">> >>}

TaskLines == {JoinTexts(t) : t \in WrittenTasks}

Lines == ShortLines \cup TaskLines

\* The values 'start' and 'end' of a segment object, or the two elements of
\* a segment pair, may have in the JSON text.
JsonTimes == {PyNone, PyInt(1), PyStr(<<"-">>), PyStr(<<"1">>), PyStr(<<"2">>)}

SegmentsIn == {SegmentIn(f, a, b) : f \in {"dict", "list"}, a \in JsonTimes, b \in JsonTimes}

ExtrasRead ==
    {Extras(n, b) : n \in {None} \cup (0 .. MaxSegmentsIn), b \in BoostValues}

\* ------------------------------------------------- the parser, step by step
\* The locals of one iteration of the for loop, as they are before it.
LineReset ==
    /\ tokens' = <<>>
    /\ startend' = NoSegment /\ extra_data' = NoExtras
    /\ segment_in' = NoSegmentIn /\ segments' = <<>>
    /\ task' = NoYieldedTask

\* The test of line 67.
IsBlankOrComment(l) == Strip(l) = <<>> \/ StartsWith(l, HASH)

\* The generator is at the head of the for loop: first called, after a
\* 'continue', or resumed from its yield.
AtFor == perr = "" /\ ppc = "for"

\* list() asks for the next task: the generator is resumed from its yield
\* and is at the head of the for loop; nothing of the line it has done with
\* is read again.
Resume ==
    /\ perr = "" /\ ppc = "y95"
    /\ ppc' = "for"
    /\ line' = <<>> /\ tline' = <<>>
    /\ LineReset
    /\ UNCHANGED <<perr, nlines, lineno, ntasks, nskipped, marked, cvars>>

\* AfterBlankOrComment of a parser that leaves the loop at such a line.
AfterBlankOrCommentBreak == "eof"

\* Where line 68 goes on: 'continue', the head of the for loop.
AfterBlankOrComment == "for"

\* Lines 66-68: the next line is blank or begins with '#'.
ReadBlankOrComment ==
    /\ AtFor /\ lineno < nlines
    /\ \E l \in Lines : IsBlankOrComment(l) /\ line' = l
    /\ lineno' = lineno + 1
    /\ tline' = <<>>
    /\ LineReset
    /\ nskipped' = nskipped + 1
    /\ marked' = IF marked = None THEN ntasks ELSE marked
    /\ ppc' = AfterBlankOrComment
    /\ UNCHANGED <<perr, nlines, ntasks, cvars>>

\* Lines 66-69: the next line is neither: parse_tokens(line) is called.
ReadTaskLine ==
    /\ AtFor /\ lineno < nlines
    /\ \E l \in Lines : ~IsBlankOrComment(l) /\ line' = l /\ tline' = l
    /\ lineno' = lineno + 1
    /\ LineReset
    /\ ppc' = "tokens"
    /\ UNCHANGED <<perr, nlines, ntasks, nskipped, marked, cvars>>

\* Line 66: the file has no line more: the generator returns.
EndOfFile ==
    /\ AtFor /\ lineno = nlines
    /\ ppc' = "eof"
    /\ UNCHANGED <<perr, nlines, lineno, line, tline, tokens, startend, extra_data,
                   segment_in, segments, task, ntasks, nskipped, marked, cvars>>

\* parse_tokens is in its while loop.
InTokens == perr = "" /\ ppc = "tokens"

\* A step of parse_tokens: it yields `token` (or none) and keeps `rest`.
TokenStep(tok, rest) ==
    /\ tokens' = tokens \o tok
    /\ tline' = rest
    /\ UNCHANGED <<ppc, perr, nlines, lineno, line, startend, extra_data,
                   segment_in, segments, task, ntasks, nskipped, marked, cvars>>

\* The exception e leaves parse_video_tasks, and main.
ParserRaises(e) ==
    /\ perr' = e
    /\ UNCHANGED <<ppc, nlines, lineno, line, tline, tokens, startend, extra_data,
                   segments, task, ntasks, nskipped, marked, cvars>>

\* '"' in token: the character, or a JSON object, which holds it.
HasDoubleQuote(token) == \E i \in 1 .. Len(token) : token[i] \in {DQ, JsonText}

\* Lines 48-51: the stripped line begins with '#': continue.
TokComment ==
    /\ InTokens /\ tline /= <<>>
    /\ StartsWith(Strip(tline), HASH)
    /\ TokenStep(<<>>, Strip(tline))
    /\ UNCHANGED segment_in

\* Lines 52-54: a token in double quotes.
TokDoubleQuoted ==
    /\ InTokens /\ tline /= <<>>
    /\ StartsWith(Strip(tline), DQ)
    /\ TokenStep(<<PartitionHead(Tail(Strip(tline)), DQ)>>,
                 PartitionTail(Tail(Strip(tline)), DQ))
    /\ UNCHANGED segment_in

\* Lines 55-57: a token in single quotes.
TokSingleQuoted ==
    /\ InTokens /\ tline /= <<>>
    /\ StartsWith(Strip(tline), SQ)
    /\ TokenStep(<<PartitionHead(Tail(Strip(tline)), SQ)>>,
                 PartitionTail(Tail(Strip(tline)), SQ))
    /\ UNCHANGED segment_in

\* The else branch of line 58 is taken.
AtPlainToken ==
    /\ InTokens /\ tline /= <<>>
    /\ ~StartsWith(Strip(tline), HASH)
    /\ ~StartsWith(Strip(tline), DQ)
    /\ ~StartsWith(Strip(tline), SQ)

\* Lines 58-61: a token up to the next space.
TokPlain ==
    /\ AtPlainToken
    /\ ~HasDoubleQuote(PartitionHead(Strip(tline), SP))
    /\ TokenStep(<<PartitionHead(Strip(tline), SP)>>, PartitionTail(Strip(tline), SP))
    /\ UNCHANGED segment_in

\* Line 60: the assert fails.
TokAssertFails ==
    /\ AtPlainToken
    /\ HasDoubleQuote(PartitionHead(Strip(tline), SP))
    /\ ParserRaises("AssertionError")
    /\ UNCHANGED segment_in

\* Line 48: the line is used up: list(...) of line 69 is complete.
TokEnd ==
    /\ InTokens /\ tline = <<>>
    /\ ppc' = "l70"
    /\ UNCHANGED <<perr, nlines, lineno, line, tline, tokens, startend, extra_data,
                   segment_in, segments, task, ntasks, nskipped, marked, cvars>>

\* Line 71: tokens[0].split('+')
InputFilesOf(toks) == Split(toks[1], "+")

\* Lines 72-74: tokens[1], with '.mp4' added unless it ends in an extension
\* the program knows.
OutputFileOf(toks) ==
    IF toks[2] /= <<>> /\ toks[2][Len(toks[2])] \in {".mp4", ".webm", ".ogv"}
    THEN toks[2]
    ELSE Append(toks[2], ".mp4")

\* Lines 75-76: None when the token is not there, else parse_seconds of it.
PositionalTime(toks, k) ==
    IF Len(toks) < k THEN Returned(None) ELSE parse_seconds(PyStr(toks[k]))

\* Line 70: the assert on the number of tokens fails.
TokenCountReject ==
    /\ perr = "" /\ ppc = "l70"
    /\ ~(2 <= Len(tokens) /\ Len(tokens) <= 5)
    /\ ParserRaises("AssertionError")
    /\ UNCHANGED segment_in

\* Lines 70-76: input_files, output_file, start and end.
StartEnd ==
    /\ perr = "" /\ ppc = "l70"
    /\ 2 <= Len(tokens) /\ Len(tokens) <= 5
    /\ PositionalTime(tokens, 3).err = "" /\ PositionalTime(tokens, 4).err = ""
    /\ startend' = Segment(PositionalTime(tokens, 3).val, PositionalTime(tokens, 4).val)
    /\ ppc' = "l78"
    /\ UNCHANGED <<perr, nlines, lineno, line, tline, tokens, extra_data,
                   segment_in, segments, task, ntasks, nskipped, marked, cvars>>

\* Lines 75-76: parse_seconds raises, for start or else for end.
StartEndReject ==
    /\ perr = "" /\ ppc = "l70"
    /\ 2 <= Len(tokens) /\ Len(tokens) <= 5
    /\ \/ PositionalTime(tokens, 3).err /= ""
          /\ ParserRaises(PositionalTime(tokens, 3).err)
       \/ PositionalTime(tokens, 3).err = "" /\ PositionalTime(tokens, 4).err /= ""
          /\ ParserRaises(PositionalTime(tokens, 4).err)
    /\ UNCHANGED segment_in

\* Lines 80-81: no fifth token: extra_data = {}.
NoExtrasGiven ==
    /\ perr = "" /\ ppc = "l78"
    /\ Len(tokens) < 5
    /\ extra_data' = NoExtras
    /\ ppc' = "l87"
    /\ UNCHANGED <<perr, nlines, lineno, line, tline, tokens, startend,
                   segment_in, segments, task, ntasks, nskipped, marked, cvars>>

\* Lines 78-86: json.loads reads the object.
LoadExtras ==
    /\ perr = "" /\ ppc = "l78"
    /\ Len(tokens) >= 5 /\ tokens[5] = <<JsonText>>
    /\ extra_data' \in ExtrasRead
    /\ ppc' = "l87"
    /\ UNCHANGED <<perr, nlines, lineno, line, tline, tokens, startend,
                   segment_in, segments, task, ntasks, nskipped, marked, cvars>>

\* Lines 79-83: the fifth token is no JSON text and json.loads raises
\* ValueError, or it is a number and extra_data.get raises.
ExtrasReject ==
    /\ perr = "" /\ ppc = "l78"
    /\ Len(tokens) >= 5 /\ tokens[5] /= <<JsonText>>
    /\ ParserRaises(IF IsDigits(tokens[5]) /\ (Len(tokens[5]) = 1 \/ tokens[5][1] /= "0")
                    THEN "AttributeError" ELSE "ValueError")
    /\ UNCHANGED segment_in

\* yield VideoTask(...) of lines 95-97
YieldTask(segs) ==
    /\ task' = YieldedTask(InputFilesOf(tokens), OutputFileOf(tokens), segs,
                           extra_data.boost_volume)
    /\ segments' = segs
    /\ ntasks' = ntasks + 1
    /\ ppc' = "y95"
    /\ UNCHANGED <<perr, nlines, lineno, line, tline, tokens, startend, extra_data,
                   segment_in, nskipped, marked, cvars>>

\* Lines 87 and 93-97: no segments in the extras (none, or an empty list).
YieldStartEnd ==
    /\ perr = "" /\ ppc = "l87"
    /\ ~Truthy(extra_data.nsegments)
    /\ YieldTask(<<startend>>)

\* Lines 88-89: an assert on start or end fails.
SegmentsAssertFails ==
    /\ perr = "" /\ ppc = "l87"
    /\ Truthy(extra_data.nsegments)
    /\ Truthy(startend.start) \/ Truthy(startend.end)
    /\ ParserRaises("AssertionError")
    /\ UNCHANGED segment_in

\* Lines 87-90: the asserts pass and the comprehension starts.
EnterSegments ==
    /\ perr = "" /\ ppc = "l87"
    /\ Truthy(extra_data.nsegments)
    /\ ~Truthy(startend.start) /\ ~Truthy(startend.end)
    /\ ppc' = "l90"
    /\ UNCHANGED <<perr, nlines, lineno, line, tline, tokens, startend, extra_data,
                   segment_in, segments, task, ntasks, nskipped, marked, cvars>>

\* What a call that makes a Segment leaves.
ReturnedSegment(a, b) == [err |-> "", val |-> Segment(a, b)]

RaisedInSegment(e) == [err |-> e, val |-> NoSegment]

\* Lines 90-91: Segment(parse_seconds(s['start']), parse_seconds(s['end']));
\* s['start'] raises TypeError when s is a list.
SegmentOf(s) ==
    IF s.form = "list" THEN RaisedInSegment("TypeError")
    ELSE IF parse_seconds(s.start).err /= "" THEN RaisedInSegment(parse_seconds(s.start).err)
    ELSE IF parse_seconds(s.end).err /= "" THEN RaisedInSegment(parse_seconds(s.end).err)
    ELSE ReturnedSegment(parse_seconds(s.start).val, parse_seconds(s.end).val)

\* Lines 90-92: one element of segments_in becomes a Segment.
SegmentItem ==
    /\ perr = "" /\ ppc = "l90"
    /\ Len(segments) < extra_data.nsegments
    /\ \E s \in SegmentsIn :
        /\ SegmentOf(s).err = ""
        /\ segment_in' = s
        /\ segments' = Append(segments, SegmentOf(s).val)
    /\ UNCHANGED <<ppc, perr, nlines, lineno, line, tline, tokens, startend, extra_data,
                   task, ntasks, nskipped, marked, cvars>>

\* Lines 90-92: making the Segment raises.
SegmentItemReject ==
    /\ perr = "" /\ ppc = "l90"
    /\ Len(segments) < extra_data.nsegments
    /\ \E s \in SegmentsIn :
        /\ SegmentOf(s).err /= ""
        /\ segment_in' = s
        /\ ParserRaises(SegmentOf(s).err)

\* Lines 92 and 95-97: the comprehension is complete.
YieldSegments ==
    /\ perr = "" /\ ppc = "l90"
    /\ Len(segments) = extra_data.nsegments
    /\ YieldTask(segments)

\* The cutting loop has not started: main is at line 306.
CutterIdle ==
    /\ dry_run = FALSE /\ run = 1 /\ outnames = <<>> /\ ti = 1 /\ vt = NoTask
    /\ pc = "loop" /\ fs = {} /\ lists = {} /\ gpc = "none"
    /\ input_files = <<>> /\ inf = <<>> /\ tmpfiles = <<>>
    /\ segment_files = <<>> /\ segment_num = 0
    /\ seg = NoSegment /\ ffmpeg_opts = <<>> /\ hits = <<>>
    /\ cmd = NoCmd
    /\ nyield = 0 /\ ndest = 0 /\ nexec = 0
    /\ failed = FALSE /\ removed = {} /\ runexec = 0

\* list(parse_video_tasks(fn)) of a task file of one to MaxLines lines.
ParseInit ==
    /\ CutterIdle
    /\ ppc = "for" /\ perr = ""
    /\ nlines \in 1 .. MaxLines /\ lineno = 0
    /\ line = <<>> /\ tline = <<>> /\ tokens = <<>>
    /\ startend = NoSegment /\ extra_data = NoExtras
    /\ segment_in = NoSegmentIn /\ segments = <<>>
    /\ task = NoYieldedTask
    /\ ntasks = 0 /\ nskipped = 0 /\ marked = None

Tokenizer ==
    \/ TokComment \/ TokDoubleQuoted \/ TokSingleQuoted
    \/ TokPlain \/ TokAssertFails \/ TokEnd

ParseNext ==
    \/ ReadBlankOrComment \/ ReadTaskLine \/ EndOfFile \/ Resume
    \/ Tokenizer
    \/ TokenCountReject \/ StartEnd \/ StartEndReject
    \/ NoExtrasGiven \/ LoadExtras \/ ExtrasReject
    \/ YieldStartEnd \/ SegmentsAssertFails \/ EnterSegments
    \/ SegmentItem \/ SegmentItemReject \/ YieldSegments

\* list() takes the generator's tasks one after the other until it returns
\* or raises: the parser always takes its next step.
ParseSpec == ParseInit /\ [][ParseNext]_vars /\ WF_vars(ParseNext)

\* ================================================================ claims
\* A task's generator exists and has a task to work on.
InTask == gpc /= "none"

\* The command stream has ended: consumed, closed in a yield, or left by an
\* exception.
Ended == gpc \in {"done", "closed", "error"}

\* The yields of the three renames to the destination.
FinalYields == {"y166", "y185", "y238"}

\* C1: the destination path is named by one command only, the rename
\* 'mv -- <output>.part<ext> <output>' that is the plan's last command; no
\* earlier command, no registered temporary and no concat list is the
\* destination.
C1_OnlyFinalRenameNamesDestination ==
    InTask =>
        /\ (cmd /= NoCmd /\ output_fn \in CmdPaths(cmd)) =>
                /\ cmd = MvCmd(WithExt(output_fn, ".part", ext), output_fn)
                /\ gpc \in FinalYields \cup {"done", "closed"}
                /\ ndest = 1
        /\ (gpc \in Yields \ FinalYields) => ndest = 0
        /\ pc = "finished" =>
                /\ ndest = 1
                /\ cmd = MvCmd(WithExt(output_fn, ".part", ext), output_fn)
        /\ output_fn \notin Range(tmpfiles)
        /\ \A l \in lists : l[1] /= output_fn

\* A multi-segment plan with gain was consumed to its end.
C1_Witness ==
    /\ pc = "finished" /\ ~dry_run
    /\ vt.nsegments > 1 /\ Truthy(vt.boost_volume)
    /\ output_fn \in fs

\* C2: once the command stream has ended, consumed to its end or abandoned
\* after a failed command or left by an exception, no path registered in
\* tmpfiles exists; a path that is absent or registered twice does not stop
\* the removal of the paths registered after it.
C2_RegisteredTemporariesGone ==
    Ended => \A i \in 1 .. Len(tmpfiles) : tmpfiles[i] \notin fs

\* The merge command failed: the registry holds each segment file twice and
\* the merge's concat list after them, and the finally block removed files.
C2_Witness ==
    /\ gpc = "closed" /\ failed
    /\ \E i, j \in 1 .. Len(tmpfiles) : i < j /\ tmpfiles[i] = tmpfiles[j]
    /\ tmpfiles[Len(tmpfiles)] = ConcatListFn(WithExt(output_fn, ".part", ext))
    /\ ConcatListFn(WithExt(output_fn, ".part", ext)) \in removed

\* The temporaries of the task's plan: what it writes besides the destination.
IsTemporary(p) == p[1] = UploadingDir /\ p /= output_fn /\ Len(p) > Len(output_fn)

\* C3: when a command is handed to main, nothing it reads (its inputs and
\* the files its concat list names) has been removed by the finally block,
\* its concat list is on disk, and in a real run every file it reads exists:
\* the general path's copy or concat runs before the trimmed temporaries
\* are deleted.
C3_NoTemporaryRemovedBeforeRead ==
    pc = "exec" =>
        /\ CmdReads(cmd, lists) \cap removed = {}
        /\ IsConcat(cmd) => \A p \in CmdInputs(cmd) : p \in fs /\ ListNames(lists, p) /= {}
        /\ ~dry_run => \A p \in CmdReads(cmd, lists) : Exists(p, fs)

\* The general path's rename is handed over after the finally block removed
\* the head-trimmed temporary, which the assembling command has read.
C3_Witness ==
    /\ pc = "exec" /\ gpc = "y238" /\ ~dry_run
    /\ nexec >= 2
    /\ WithExt(output_fn, ".first_part", ext) \in removed
    /\ WithExt(output_fn, ".part", ext) \in fs

\* C4: once a task's plan has ended, after success or after a failure,
\* nothing the plan created is left in the output directory but destination
\* files: no temporary, the part file included.
C4_NoTemporaryLeftBehind ==
    Ended => \A p \in fs : ~IsTemporary(p)

\* C5: in a real run, once a command of a task's plan has exited non-zero,
\* no further command of that plan is handed over or launched: the generator
\* yields nothing more and the count of launched commands stays.
C5_NoCommandAfterFailure ==
    [][failed => (nexec' = nexec /\ nyield' = nyield /\ cmd' = cmd /\ failed')]_vars

\* A command that is not the plan's rename failed, and main has raised.
C5_Witness ==
    /\ failed /\ pc = "raised"
    /\ gpc = "closed"
    /\ output_fn \notin CmdPaths(cmd)
    /\ output_fn \notin fs

\* The steps of the cutting loop that take up or pass over a task, or end
\* the loop.
LoopStep == SkipTask \/ StartTask \/ NextIteration \/ LoopEnd

\* C6 as claimed: after a command of a task failed, the cutting loop goes on:
\* a step of the loop is possible.
C6_LoopGoesOnAfterFailure ==
    failed => ENABLED LoopStep

\* C6 as amended: after a command of a task failed, main has raised and is
\* left: the loop takes no step more, so no task after the failed one is
\* taken up, skipped or cut in that run.
C6_RunEndsAtFailure ==
    failed => (pc = "raised" /\ ~ENABLED LoopStep)

\* The first of the tasks failed while the task list may hold more.
C6_Witness ==
    /\ failed /\ pc = "raised"
    /\ ti = 1 /\ HasTask(ti + 1)
    /\ nexec >= 2

\* C7: a task whose output exists in the final directory or in 'uploading'
\* is passed over: no generator is made for it, nothing on disk changes and
\* no command is launched; and a run after a run that cut every task
\* launches no command and makes no generator at all.
C7_ExistingOutputIsSkipped ==
    /\ [][(pc = "loop" /\ vt' /= NoTask /\
            (Join(CwdDir, vt'.output_file) \in fs \/
             Join(UploadingDir, vt'.output_file) \in fs))
           => (pc' = "skipped" /\ gpc' = "none" /\
               UNCHANGED <<fs, lists, runexec, nexec, nyield, tmpfiles>>)]_vars
    /\ [][pc = "skipped" => UNCHANGED <<fs, lists, runexec, gpc, tmpfiles>>]_vars
    /\ [](run = 2 => (runexec = 0 /\ gpc = "none" /\ pc \in {"loop", "skipped", "exit"}))

\* The second run has passed over both tasks of a list the first run cut.
C7_Witness ==
    /\ run = 2 /\ pc = "exit"
    /\ Len(outnames) = 2 /\ outnames[1] /= outnames[2]
    /\ \A i \in 1 .. 2 : Join(UploadingDir, outnames[i]) \in fs

\* The task has several segments and one input file.
MultiOnOneInput == InTask /\ vt.nsegments > 1 /\ Len(vt.input_files) = 1

\* The commands a multi-segment plan on one input has yielded when the
\* filter's rename, the filter and the final rename are yielded.
GainCommands == IF Truthy(vt.boost_volume) THEN 2 ELSE 0

\* C8: a plan for n > 1 segments of one input is n extraction commands, the
\* k-th writing the segment file numbered k - 1, all distinct; then one concat
\* of these files in segment order into the part file; with a gain, the
\* rename of the part file to the filter input and the filter command writing
\* the part file; then the rename: n + 2 commands, n + 4 with a gain.
C8_MultiSegmentPlanShape ==
    MultiOnOneInput =>
        /\ gpc = "y147" =>
            /\ nyield = segment_num + 1
            /\ cmd[1] = Lit("ffmpeg") /\ ~IsConcat(cmd)
            /\ Len(segment_files) = segment_num + 1
            /\ CmdTarget(cmd) = segment_files[segment_num + 1]
            /\ CmdTarget(cmd) = output_fn \o <<".segment", Digits[segment_num + 1], ext>>
            /\ \A i, j \in 1 .. Len(segment_files) :
                    i /= j => segment_files[i] /= segment_files[j]
        /\ gpc = "y153" =>
            /\ nyield = vt.nsegments + 1
            /\ IsConcat(cmd)
            /\ CmdTarget(cmd) = WithExt(output_fn, ".part", ext)
            /\ Len(segment_files) = vt.nsegments
            /\ \A p \in CmdInputs(cmd) : <<p, segment_files>> \in lists
            /\ \A k \in 1 .. vt.nsegments :
                    segment_files[k] = output_fn \o <<".segment", Digits[k], ext>>
        /\ gpc = "y155" =>
            /\ Truthy(vt.boost_volume)
            /\ nyield = vt.nsegments + 2
            /\ cmd = MvCmd(WithExt(output_fn, ".part", ext),
                           WithExt(output_fn, ".filter_input", ext))
        /\ gpc = "y160" =>
            /\ nyield = vt.nsegments + 3
            /\ cmd[1] = Lit("ffmpeg")
            /\ CmdInputs(cmd) = {WithExt(output_fn, ".filter_input", ext)}
            /\ CmdTarget(cmd) = WithExt(output_fn, ".part", ext)
            /\ \E i \in 1 .. Len(cmd) : cmd[i] = Volume(vt.boost_volume)
        /\ gpc \in {"y166", "done"} =>
            /\ nyield = vt.nsegments + 2 + GainCommands
            /\ cmd = MvCmd(WithExt(output_fn, ".part", ext), output_fn)

\* A plan for three segments of one input with a gain was consumed: seven
\* commands.
C8_Witness ==
    /\ MultiOnOneInput /\ pc = "finished" /\ ~dry_run
    /\ vt.nsegments = 3 /\ Truthy(vt.boost_volume)
    /\ nyield = 7 /\ nexec = 7

\* C9: in a multi-segment plan on several inputs the first command
\* concatenates the inputs in order into the whole-input temporary and every
\* extraction command reads that temporary; on one input the extraction
\* commands read the input.
C9_SegmentsCutFromWholeInput ==
    (InTask /\ vt.nsegments > 1) =>
        /\ gpc = "y128" =>
            /\ nyield = 1 /\ IsConcat(cmd)
            /\ CmdTarget(cmd) = WithExt(output_fn, ".whole", ext)
            /\ \A p \in CmdInputs(cmd) :
                    <<p, [i \in 1 .. Len(vt.input_files) |-> FoundPath(vt.input_files[i])]>>
                        \in lists
        /\ gpc = "y147" =>
            CmdInputs(cmd) =
                {IF Len(vt.input_files) > 1
                 THEN WithExt(output_fn, ".whole", ext)
                 ELSE FoundPath(vt.input_files[1])}

\* C10: no command is yielded from a segment with both bounds set (neither
\* None nor 0) and end <= start, and no yielded command carries a '-t' of
\* zero or less.
C10_BadSegmentRejected ==
    (InTask /\ pc = "exec") =>
        /\ (Truthy(seg.start) /\ Truthy(seg.end)) => seg.end > seg.start
        /\ \A d \in OptValues(cmd, "-t") : d > 0

\* A bound of 0 replaced by the unspecified marker.
ZeroAsNone(x) == IF x = 0 THEN None ELSE x

Unzeroed(s) == Segment(ZeroAsNone(s.start), ZeroAsNone(s.end))

\* The generator raised in the segment loop (the assert of line 141).
RejectedInLoop == gpc = "error" /\ vt.nsegments > 1 /\ segment_files /= <<>>

\* C11: a bound of 0 is treated as unspecified on every path: what the
\* generator makes of a segment (the command it yields, or the rejection) is
\* what it makes of that segment with each 0 replaced by None.
C11_ZeroBoundIsUnspecified ==
    InTask =>
        /\ gpc = "y147" =>
            \E src \in CmdInputs(cmd) :
                cmd = SegmentCmd(src, SegmentOpts(Unzeroed(seg)), CmdTarget(cmd))
        /\ RejectedInLoop => ~SegmentAssertOk(Unzeroed(seg))
        /\ gpc = "y176" =>
            /\ IsFastPath(input_files, Unzeroed(seg))
            /\ cmd = FastCmd(input_files[1], Unzeroed(seg).start, Unzeroed(seg).end,
                             WithExt(output_fn, ".part", ext))
        /\ gpc = "y193" =>
            /\ Unzeroed(seg).start /= None
            /\ cmd = HeadTrimCmd(input_files[1], Unzeroed(seg).start,
                                 WithExt(output_fn, ".first_part", ext))
        /\ gpc = "y203" =>
            /\ Unzeroed(seg).end /= None
            /\ \E src \in CmdInputs(cmd) :
                cmd = TailTrimCmd(src, Unzeroed(seg).end,
                                  WithExt(output_fn, ".end_part", ext))
        /\ (gpc \in {"y211", "y223"} /\ nyield = 1) => Unzeroed(seg) = NoSegment

\* One segment of one input with both bounds set, end after start.
FastTask ==
    /\ InTask /\ vt.nsegments = 1 /\ Len(vt.input_files) = 1
    /\ Truthy(seg.start) /\ Truthy(seg.end) /\ seg.end > seg.start

\* C12: the plan of one segment of one input with both bounds set is two
\* commands: one ffmpeg stream copy with -noaccurate_seek, -ss <start> and
\* -t <end - start> from the input to the part file, then the rename of the
\* part file to the destination; nothing is registered in tmpfiles, no
\* concat list is written and the part file is the only temporary on disk.
\* (The segment is read after the assert of line 172: with a gain the
\* generator raises there and there is no plan.)
C12_FastPathPlan ==
    FastTask =>
        /\ gpc \in {"l175", "y176", "y185", "done", "closed"}
        /\ tmpfiles = <<>> /\ lists = {}
        /\ gpc = "l175" => nyield = 0
        /\ gpc = "y176" =>
            /\ nyield = 1
            /\ cmd = <<Lit("ffmpeg"), Lit("-noaccurate_seek"),
                       Lit("-i"), File(FoundPath(vt.input_files[1])), Lit("-y"),
                       Lit("-ss"), Num(seg.start), Lit("-c"), Lit("copy"),
                       Lit("-t"), Num(seg.end - seg.start),
                       Lit("-avoid_negative_ts"), Lit("make_zero"),
                       File(WithExt(output_fn, ".part", ext))>>
        /\ gpc \in {"y185", "done"} =>
            /\ nyield = 2
            /\ cmd = MvCmd(WithExt(output_fn, ".part", ext), output_fn)
        /\ nyield <= 2
        /\ \A p \in fs : IsTemporary(p) => p = WithExt(output_fn, ".part", ext)

\* The fast path's plan for the segment from 1 to 2 was run to its end.
C12_Witness ==
    /\ FastTask /\ pc = "finished" /\ ~dry_run
    /\ seg = Segment(1, 2)
    /\ nyield = 2 /\ nexec = 2
    /\ output_fn \in fs /\ WithExt(output_fn, ".part", ext) \notin fs

\* One segment on the general path: a bound is unset, or there are several
\* inputs; the segment has been read (line 173).
GeneralTask ==
    /\ InTask /\ vt.nsegments = 1
    /\ gpc \notin {"start", "l124", "error"}
    /\ ~(Len(vt.input_files) = 1 /\ Truthy(seg.start) /\ Truthy(seg.end))

\* The inputs as found, and as the assembling command is to read them: the
\* first replaced by the head-trimmed temporary when start is set, the last
\* by the tail-trimmed temporary when end is set.
FoundInputs == [i \in 1 .. Len(vt.input_files) |-> FoundPath(vt.input_files[i])]

HeadTrimmed ==
    IF Truthy(seg.start)
    THEN [FoundInputs EXCEPT ![1] = WithExt(output_fn, ".first_part", ext)]
    ELSE FoundInputs

AssembledInputs ==
    IF Truthy(seg.end)
    THEN [HeadTrimmed EXCEPT ![Len(HeadTrimmed)] = WithExt(output_fn, ".end_part", ext)]
    ELSE HeadTrimmed

\* The number of trim commands the segment asks for.
Trims == (IF Truthy(seg.start) THEN 1 ELSE 0) + (IF Truthy(seg.end) THEN 1 ELSE 0)

\* C13: the plan of one segment on the general path is, in order: a head
\* trim of the first input iff start is set, a tail trim of the last input
\* iff end is set, one assembling command (cp of the one input left into
\* the part file, or else one concat whose list names the inputs in their
\* order with the first and last replaced by the trimmed temporaries), and
\* the rename; an unbounded segment gives the assembling command and the
\* rename alone.
C13_GeneralPathPlan ==
    GeneralTask =>
        /\ gpc = "y193" =>
            /\ Truthy(seg.start) /\ nyield = 1
            /\ cmd = <<Lit("ffmpeg"), Lit("-i"), File(FoundInputs[1]), Lit("-y"),
                       Lit("-ss"), Num(seg.start), Lit("-c"), Lit("copy"),
                       File(WithExt(output_fn, ".first_part", ext))>>
        /\ gpc = "y203" =>
            /\ Truthy(seg.end) /\ nyield = Trims
            /\ cmd = <<Lit("ffmpeg"), Lit("-i"),
                       File(HeadTrimmed[Len(HeadTrimmed)]), Lit("-y"),
                       Lit("-t"), Num(seg.end), Lit("-c"), Lit("copy"),
                       File(WithExt(output_fn, ".end_part", ext))>>
        /\ gpc = "y211" =>
            /\ Len(vt.input_files) = 1 /\ nyield = Trims + 1
            /\ cmd = <<Lit("cp"), Lit("--"), File(AssembledInputs[1]),
                       File(WithExt(output_fn, ".part", ext))>>
        /\ gpc = "y223" =>
            /\ Len(vt.input_files) > 1 /\ nyield = Trims + 1
            /\ IsConcat(cmd) /\ cmd[1] = Lit("ffmpeg")
            /\ CmdTarget(cmd) = WithExt(output_fn, ".part", ext)
            /\ \A p \in CmdInputs(cmd) : <<p, AssembledInputs>> \in lists
            /\ Cardinality(CmdInputs(cmd)) = 1
        /\ gpc \in {"y238", "done"} =>
            /\ nyield = Trims + 2
            /\ cmd = MvCmd(WithExt(output_fn, ".part", ext), output_fn)
        /\ nyield <= Trims + 2

\* Two inputs trimmed at both ends: head trim, tail trim, concat and rename
\* have run.
C13_Witness ==
    /\ GeneralTask /\ pc = "finished" /\ ~dry_run
    /\ Len(vt.input_files) = 2 /\ Truthy(seg.start) /\ Truthy(seg.end)
    /\ nyield = 4 /\ nexec = 4
    /\ output_fn \in fs

\* An input of the task was looked up and not found exactly once.
InputNotFoundOnce == InTask /\ \E i \in 1 .. Len(hits) : hits[i] /= 1

\* C14: when an input basename of a task is not found, or found more than
\* once, under indir, the generator raises before its first yield: no
\* command of the task is yielded or launched, nothing is registered, and no
\* temporary or concat list of the task is on disk.
C14_NoCommandWhenInputNotFound ==
    InputNotFoundOnce =>
        /\ gpc = "error" /\ pc = "raised"
        /\ nyield = 0 /\ nexec = 0 /\ cmd = NoCmd
        /\ input_files = <<>> /\ tmpfiles = <<>>
        /\ lists = {}
        /\ \A p \in fs : ~IsTemporary(p)

\* After a first task was cut, the second input of the second task is found
\* twice.
C14_Witness ==
    /\ gpc = "error" /\ ti = 2 /\ runexec > 0
    /\ Len(vt.input_files) = 2 /\ hits = <<1, 2>>

\* C19: the filter command of a multi-segment plan with gain is made of the
\* gain and the output name alone: it reads the filter input, copies the
\* video stream, applies the volume filter and writes the part file, and it
\* carries no '-ss' and no '-t', whatever the bounds of the segments are.
C19_FilterCommandHasNoSegmentOptions ==
    (InTask /\ gpc = "y160") =>
        /\ cmd = <<Lit("ffmpeg"), Lit("-i"),
                   File(WithExt(output_fn, ".filter_input", ext)), Lit("-y"),
                   Lit("-c:v"), Lit("copy"), Lit("-af"), Volume(vt.boost_volume),
                   File(WithExt(output_fn, ".part", ext))>>
        /\ OptValues(cmd, "-ss") = {} /\ OptValues(cmd, "-t") = {}

C16_SegmentsExcludePositionalTimes ==
    (ppc = "y95" /\ Truthy(extra_data.nsegments)) =>
        \A k \in {3, 4} : Len(tokens) >= k => tokens[k] = <<"-">>

\* C17: an element of 'segments' written as the pair [a, b] becomes what the
\* object {start: a, end: b} becomes: with parse_seconds(a) and
\* parse_seconds(b) defined, Segment(parse_seconds(a), parse_seconds(b)).
C17_PairParsesLikeObject ==
    (ppc \in {"l90", "y95"} /\ segment_in /= NoSegmentIn
        /\ parse_seconds(segment_in.start).err = ""
        /\ parse_seconds(segment_in.end).err = "") =>
            /\ perr = ""
            /\ segments /= <<>>
            /\ segments[Len(segments)] =
                    Segment(parse_seconds(segment_in.start).val,
                            parse_seconds(segment_in.end).val)

\* The reference of parse_seconds: '-' and None are unspecified, an int is
\* itself, SS, MM:SS and HH:MM:SS of digits are counted in seconds, and any
\* other string is an error.
ReferenceSeconds(v) ==
    IF v.kind = "None" \/ (v.kind = "str" /\ v.s = <<"-">>) THEN Returned(None)
    ELSE IF v.kind = "int" THEN Returned(v.n)
    ELSE LET f == Split(v.s, ":") IN
         IF \E i \in 1 .. Len(f) : ~IsDigits(f[i]) THEN Raised("error")
         ELSE CASE Len(f) = 1 -> Returned(IntOf(f[1]))
                [] Len(f) = 2 -> Returned(60 * IntOf(f[1]) + IntOf(f[2]))
                [] Len(f) = 3 -> Returned(3600 * IntOf(f[1]) + 60 * IntOf(f[2]) + IntOf(f[3]))
                [] OTHER -> Raised("error")

\* parse_seconds and the reference fail together or give the same value.
AgreesWithReference(v) ==
    /\ (parse_seconds(v).err = "") = (ReferenceSeconds(v).err = "")
    /\ parse_seconds(v).err = "" => parse_seconds(v).val = ReferenceSeconds(v).val

\* The values parse_seconds was called with for the line: the start and end
\* tokens, and the bounds of the element of 'segments' read last.
SecondsArguments ==
    (IF ppc \in {"l70", "l78", "l87", "l90", "y95"} /\ Len(tokens) \in 3 .. 5
        /\ (ppc = "l70" => perr /= "")
     THEN {PyStr(tokens[3])} ELSE {})
    \cup
    (IF ppc \in {"l78", "l87", "l90", "y95"} /\ Len(tokens) \in 4 .. 5
     THEN {PyStr(tokens[4])} ELSE {})
    \cup
    (IF ppc \in {"l90", "y95"} /\ segment_in.form = "dict"
     THEN {segment_in.start} ELSE {})
    \cup
    (IF ppc \in {"l90", "y95"} /\ segment_in.form = "dict"
        /\ parse_seconds(segment_in.start).err = ""
     THEN {segment_in.end} ELSE {})

\* C18: on every value it is called with, parse_seconds agrees with the
\* reference; and what the parser keeps of a start or end token is the
\* reference's value.
C18_ParseSecondsMatchesReference ==
    /\ \A v \in SecondsArguments : AgreesWithReference(v)
    /\ (ppc \in {"l78", "l87", "l90", "y95"} /\ Len(tokens) >= 3) =>
            startend.start = ReferenceSeconds(PyStr(tokens[3])).val

\* C20: parse_tokens comes to its end on every line: once it is called, it
\* returns or raises.
C20_TokenizingTerminates ==
    (ppc = "tokens") ~> (ppc /= "tokens" \/ perr /= "")

====
